---- MODULE Spec2Model ----
(***************************************************************************)
(* Model of src/music_player.py: the INI loader, the category / hotkey     *)
(* construction done by _setup_ui, and the playback handlers _play,        *)
(* _play_random and _stop driving pygame.mixer.music.                      *)
(*                                                                         *)
(* Text values (keys, categories, titles) are sequences of one-character   *)
(* strings so that strip('"') and str(n + 1) are computed, not assumed.    *)
(* A dict is a sequence of <<key, value>> pairs in insertion order.        *)
(***************************************************************************)
EXTENDS Integers, Sequences, FiniteSets, TLC

(* ------------------------------ bounds --------------------------------- *)
\* longest config assembled from SectionChoices
MaxSections == 2
\* most sections of a config whose sections all carry distinct categories
MaxWide == 9
\* interpreter recursion limit (frames of _play), scaled down
RecursionLimit == 3

(* --------------------------- text helpers ------------------------------ *)
QUOTE == "\""
ALL == <<"a", "l", "l">>
SPACE == <<"<", "s", "p", "a", "c", "e", ">">>
UnknownArtist == <<"U", "n", "k", "n", "o", "w", "n", " ", "A", "r", "t", "i", "s", "t">>
NoPath == "<none>"

RECURSIVE LStrip(_)
LStrip(s) ==
    IF s # <<>> /\ Head(s) = QUOTE THEN LStrip(Tail(s)) ELSE s

RECURSIVE RStrip(_)
RStrip(s) ==
    IF s # <<>> /\ s[Len(s)] = QUOTE THEN RStrip(SubSeq(s, 1, Len(s) - 1)) ELSE s

\* str.strip('"')
Strip(s) == RStrip(LStrip(s))

Digit(d) == <<"0", "1", "2", "3", "4", "5", "6", "7", "8", "9">>[d + 1]

\* f'{n}' for a natural number
RECURSIVE Str(_)
Str(n) ==
    IF n < 10 THEN <<Digit(n)>> ELSE Str(n \div 10) \o <<Digit(n % 10)>>

DigitVal(c) == CHOOSE d \in 0..9 : Digit(d) = c

\* int(text) for a string of decimal digits (configparser.getint)
RECURSIVE ParseInt(_)
ParseInt(s) ==
    IF s = <<>> THEN 0
    ELSE 10 * ParseInt(SubSeq(s, 1, Len(s) - 1)) + DigitVal(s[Len(s)])

(* ----------------------------- file system ----------------------------- *)
MusicDir == "music"
ConfigFiles == {"songs.ini", "SONGS.INI", "songs.txt"}
IniNames == {"songs.ini", "SONGS.INI", "absent.ini"}
ExistingFiles == {"music/a.wav", "music/b.wav", "music/c.wav"} \cup ConfigFiles
ExistingDirs == {MusicDir}

IsFile(path) == path \in ExistingFiles
IsDir(path) == path \in ExistingDirs
Join(dir, filename) == dir \o "/" \o filename

(* ------------------------------- loader -------------------------------- *)
\* config.get(section, option, fallback=...)
Get(section, option, fallback) ==
    IF option \in DOMAIN section THEN section[option] ELSE fallback

ReservedKeys == {SPACE} \cup {<<Digit(d)>> : d \in 1..9}

Song(section, filepath) ==
    [filepath |-> filepath,
     title    |-> Strip(section.title),
     artist   |-> Strip(Get(section, "artist", UnknownArtist)),
     timecode |-> ParseInt(Get(section, "timecode", <<"0">>)),
     key      |-> Strip(Get(section, "key", <<>>)),
     category |-> Strip(Get(section, "category", <<>>))]

\* variant of LoadSections: an offending section is skipped (continue)
\* instead of raising
RECURSIVE LoadSections_Skip(_, _, _)
LoadSections_Skip(sections, music_dir, songs) ==
    IF sections = <<>> THEN [error |-> "none", songs |-> songs]
    ELSE LET section == Head(sections)
             filepath == Join(music_dir, section.filename)
             song == Song(section, filepath)
         IN  IF ~IsFile(filepath) \/ song.key \in ReservedKeys
                 THEN LoadSections_Skip(Tail(sections), music_dir, songs)
             ELSE LoadSections_Skip(Tail(sections), music_dir, Append(songs, song))

\* the for-loop over config.sections(); a raise discards the partial list
RECURSIVE LoadSections(_, _, _)
LoadSections(sections, music_dir, songs) ==
    IF sections = <<>> THEN [error |-> "none", songs |-> songs]
    ELSE LET section == Head(sections)
             filepath == Join(music_dir, section.filename)
             song == Song(section, filepath)
         IN  IF ~IsFile(filepath)
                 THEN [error |-> "AssetNotFound", songs |-> <<>>]
             ELSE IF song.key \in ReservedKeys
                 THEN [error |-> "ReservedHotkey", songs |-> <<>>]
             ELSE LoadSections(Tail(sections), music_dir, Append(songs, song))

load_song_configs(config_file, music_dir, sections) ==
    IF ~IsFile(config_file)
        THEN [error |-> "ConfigNotFound", songs |-> <<>>]
    ELSE IF config_file \notin IniNames
        THEN [error |-> "InvalidConfigFormat", songs |-> <<>>]
    ELSE IF ~IsDir(music_dir)
        THEN [error |-> "AssetDirNotFound", songs |-> <<>>]
    ELSE LoadSections(sections, music_dir, <<>>)

(* ------------------------- dicts and bindings -------------------------- *)
DictKeys(d) == {d[i][1] : i \in 1..Len(d)}

DictIndex(d, k) == CHOOSE i \in 1..Len(d) : d[i][1] = k

DictGet(d, k) == d[DictIndex(d, k)][2]

\* d[k] = v keeps the position of an existing key, else inserts at the end
DictSet(d, k, v) ==
    IF k \in DictKeys(d) THEN [d EXCEPT ![DictIndex(d, k)] = <<k, v>>]
    ELSE Append(d, <<k, v>>)

PlaySpecific(song) == [type |-> "PlaySpecific", song |-> song]
PlayRandom(category) == [type |-> "PlayRandom", category |-> category]
StopAction == [type |-> "Stop"]

\* root.bind(token, handler): a later bind of the same token replaces it
Bind(bindings, token, action) ==
    [t \in (DOMAIN bindings) \cup {token} |->
        IF t = token THEN action ELSE bindings[t]]

(* ------------------------------ _setup_ui ------------------------------ *)
n_rows == 6
n_cols == 9

\* {song.category: [] for song in songs if song.category}
RECURSIVE CategoryKeys(_, _)
CategoryKeys(songs, d) ==
    IF songs = <<>> THEN d
    ELSE LET song == Head(songs)
         IN  CategoryKeys(Tail(songs),
                 IF song.category # <<>> THEN DictSet(d, song.category, <<>>) ELSE d)

\* variant of EmptyCategories: the 'all' bucket is created first
EmptyCategories_AllFirst(songs) == CategoryKeys(songs, <<<<ALL, <<>>>>>>)

\* the empty buckets, then categories['all'] = []
EmptyCategories(songs) == DictSet(CategoryKeys(songs, <<>>), ALL, <<>>)

\* the loop over songs: key binding and bucket filling
RECURSIVE FillCategories(_, _)
FillCategories(songs, categories) ==
    IF songs = <<>> THEN categories
    ELSE LET song == Head(songs)
             c1 == IF song.category # <<>>
                   THEN DictSet(categories, song.category,
                                Append(DictGet(categories, song.category), song))
                   ELSE categories
             c2 == DictSet(c1, ALL, Append(DictGet(c1, ALL), song))
         IN  FillCategories(Tail(songs), c2)

RECURSIVE BindSongKeys(_, _)
BindSongKeys(songs, bindings) ==
    IF songs = <<>> THEN bindings
    ELSE LET song == Head(songs)
         IN  BindSongKeys(Tail(songs),
                 IF song.key # <<>> THEN Bind(bindings, song.key, PlaySpecific(song))
                 ELSE bindings)

\* for n, (category, _) in enumerate(categories.items()): root.bind(f'{n+1}', ...)
RECURSIVE BindSelectors(_, _, _)
BindSelectors(categories, n, bindings) ==
    IF n >= Len(categories) THEN bindings
    ELSE BindSelectors(categories, n + 1,
             Bind(bindings, Str(n + 1), PlayRandom(categories[n + 1][1])))

setup_ui(songs) ==
    LET categories == FillCategories(songs, EmptyCategories(songs))
        b1 == BindSongKeys(songs, <<>>)
        b2 == BindSelectors(categories, 0, b1)
    IN  [categories |-> categories, bindings |-> Bind(b2, SPACE, StopAction)]

(* ------------------------- pygame.mixer.music -------------------------- *)
\* the mixer: one asset slot, a transport flag and the start position
NewMixer == [initialized |-> FALSE, loaded |-> NoPath, playing |-> FALSE, pos |-> 0]

MusicLoad(m, path) == [m EXCEPT !.loaded = path, !.playing = FALSE, !.pos = 0]
MusicPlay(m, start) == [m EXCEPT !.playing = TRUE, !.pos = start]
MusicStop(m) == [m EXCEPT !.playing = FALSE]
MusicUnload(m) == [m EXCEPT !.loaded = NoPath, !.pos = 0]
\* pygame.init() brings the mixer up only when an audio device can be opened
PygameInit(m, device_ok) == [m EXCEPT !.initialized = device_ok]

(* ------------------------------ handlers ------------------------------- *)
\* variant of TryPlay: the load is skipped when an asset is already loaded
TryPlay_KeepLoaded(song, m) ==
    IF m.loaded # NoPath THEN MusicPlay(m, song.timecode)
    ELSE MusicPlay(MusicLoad(m, song.filepath), song.timecode)

\* the try body of _play; load and play raise pygame.error on an
\* uninitialized mixer
TryPlay(song, m) == MusicPlay(MusicLoad(m, song.filepath), song.timecode)

\* _play: on pygame.error, pygame.init() and the recursive call
RECURSIVE play(_, _, _, _)
play(song, m, device_ok, depth) ==
    IF depth >= RecursionLimit
        THEN [mixer |-> m, result |-> "RecursionError", loads |-> 0, inits |-> 0]
    ELSE IF m.initialized
        THEN [mixer |-> TryPlay(song, m), result |-> "ok", loads |-> 1, inits |-> 0]
    ELSE LET r == play(song, PygameInit(m, device_ok), device_ok, depth + 1)
         IN  [r EXCEPT !.loads = @ + 1, !.inits = @ + 1]

\* variant of Filtered: the category filter is not applied
Filtered_NoFilter(songs, category) == songs

\* the list _play_random draws from
Filtered(songs, category) ==
    IF category # ALL
    THEN SelectSeq(songs, LAMBDA song : song.category = category)
    ELSE songs

\* variant of RandInt: the upper end is exclusive
RandInt_Short(a, b) == a..(b - 1)

\* the values random.randint(a, b) can return; empty means ValueError
RandInt(a, b) == a..b

\* variant of stop: no except clause, pygame.error reaches the caller
stop_NoExcept(m) ==
    IF ~m.initialized THEN [mixer |-> m, result |-> "pygame.error"]
    ELSE [mixer |-> MusicUnload(MusicStop(m)), result |-> "ok"]

\* _stop: the except clause swallows pygame.error of an uninitialized mixer
stop(m) ==
    IF ~m.initialized THEN [mixer |-> m, result |-> "ok"]
    ELSE [mixer |-> MusicUnload(MusicStop(m)), result |-> "ok"]

(* ------------------------------- inputs -------------------------------- *)
SecA == [filename |-> "a.wav",
         title |-> <<QUOTE, "T", "h", "e", "m", "e", QUOTE>>,
         key |-> <<"q">>]
SecB == [filename |-> "b.wav",
         title |-> <<QUOTE, "B", "o", "s", "s", QUOTE>>,
         key |-> <<"w">>,
         category |-> <<"b", "o", "s", "s">>]
SecC == [filename |-> "c.wav",
         title |-> <<"C">>,
         artist |-> <<QUOTE, "X", QUOTE>>,
         timecode |-> <<"7">>,
         key |-> <<QUOTE, "q", QUOTE>>,
         category |-> <<QUOTE, "b", "o", "s", "s", QUOTE>>]
SecMissing == [filename |-> "missing.wav", title |-> <<"M">>, key |-> <<"e">>]
SecDigit == [filename |-> "a.wav", title |-> <<"D">>, key |-> <<QUOTE, "1", QUOTE>>]
SecSpace == [filename |-> "b.wav", title |-> <<"S">>, key |-> SPACE,
             category |-> <<"b", "o", "s", "s">>]
SecAll == [filename |-> "b.wav", title |-> <<"L">>, timecode |-> <<"1", "2">>,
           category |-> ALL]

SectionChoices == {SecA, SecB, SecC, SecMissing, SecDigit, SecSpace, SecAll}

ExampleConfig == <<SecA, SecB>>

\* a config of k sections with k distinct categories; the first one claims
\* the two-character token "10"
WideSection(i) ==
    IF i = 1
    THEN [filename |-> "a.wav", title |-> <<"W">>, key |-> <<"1", "0">>,
          category |-> <<"c">> \o Str(i)]
    ELSE [filename |-> "a.wav", title |-> <<"W">>, category |-> <<"c">> \o Str(i)]

WideConfig(k) == [i \in 1..k |-> WideSection(i)]

Configs ==
    UNION {[1..k -> SectionChoices] : k \in 0..MaxSections}
    \cup {WideConfig(k) : k \in (MaxWide - 2)..MaxWide}

ConfigFileChoices == {"songs.ini", "SONGS.INI", "songs.txt", "absent.ini"}
MusicDirChoices == {MusicDir, "nowhere"}

\* categories a caller may pass that need not be in the index
OtherCategories == {<<>>, <<"z">>}

(* ------------------------------- state --------------------------------- *)
VARIABLES
    config_file,  \* --config
    music_dir,    \* --music_dir
    config,       \* the sections of the INI file
    device_ok,    \* whether pygame.init() can open an audio device
    phase,        \* "start", "running" (mainloop) or "failed" (exception)
    error,        \* the startup failure, "none" otherwise
    songs,        \* the roster returned by _load_song_configs
    categories,   \* the categories dict of _setup_ui
    bindings,     \* token -> handler, as left by root.bind
    mixer,        \* pygame.mixer.music
    last,         \* the last handler run and what it did
    lastPlayed    \* <<song>> of the most recent successful play, else <<>>

vars == <<config_file, music_dir, config, device_ok, phase, error, songs,
          categories, bindings, mixer, last, lastPlayed>>

inputs == <<config_file, music_dir, config, device_ok>>
built == <<phase, error, songs, categories, bindings>>

Playback(m) == [loaded |-> m.loaded, playing |-> m.playing]

NoCall == [op |-> "none", category |-> <<>>, song |-> <<>>, result |-> "none",
           loads |-> 0, inits |-> 0, before |-> Playback(NewMixer)]

Init ==
    /\ config_file \in ConfigFileChoices
    /\ music_dir \in MusicDirChoices
    /\ config \in Configs
    /\ device_ok \in BOOLEAN
    /\ phase = "start"
    /\ error = "none"
    /\ songs = <<>>
    /\ categories = <<>>
    /\ bindings = <<>>
    /\ mixer = NewMixer
    /\ last = NoCall
    /\ lastPlayed = <<>>

\* MusicPlayer.__init__ up to ui.mainloop()
Startup ==
    /\ phase = "start"
    /\ LET r == load_song_configs(config_file, music_dir, config)
           ui == setup_ui(r.songs)
       IN  IF r.error # "none"
           THEN /\ phase' = "failed"
                /\ error' = r.error
                /\ UNCHANGED <<songs, categories, bindings>>
           ELSE /\ phase' = "running"
                /\ error' = "none"
                /\ songs' = r.songs
                /\ categories' = ui.categories
                /\ bindings' = ui.bindings
    /\ UNCHANGED <<inputs, mixer, last, lastPlayed>>

\* a handler calling _play(song)
DoPlay(song, op, category) ==
    LET r == play(song, mixer, device_ok, 0)
    IN  /\ mixer' = r.mixer
        /\ last' = [op |-> op, category |-> category, song |-> <<song>>,
                    result |-> r.result, loads |-> r.loads, inits |-> r.inits,
                    before |-> Playback(mixer)]
        /\ lastPlayed' = IF r.result = "ok" THEN <<song>> ELSE lastPlayed

\* a handler calling _play_random(songs, category)
DoPlayRandom(category) ==
    LET pool == Filtered(songs, category)
        range == RandInt(0, Len(pool) - 1)
    IN  IF range = {}
        THEN /\ last' = [op |-> "PlayRandom", category |-> category, song |-> <<>>,
                         result |-> "NoTracksAvailable", loads |-> 0, inits |-> 0,
                         before |-> Playback(mixer)]
             /\ UNCHANGED <<mixer, lastPlayed>>
        ELSE \E i \in range : DoPlay(pool[i + 1], "PlayRandom", category)

\* a handler calling _stop()
DoStop ==
    LET r == stop(mixer)
    IN  /\ mixer' = r.mixer
        /\ last' = [op |-> "Stop", category |-> <<>>, song |-> <<>>,
                    result |-> r.result, loads |-> 0, inits |-> 0,
                    before |-> Playback(mixer)]
        /\ UNCHANGED lastPlayed

\* the button of the i-th song in the 'all' tab
ClickSong(i) ==
    /\ phase = "running"
    /\ i \in 1..Len(songs)
    /\ (i - 1) \div n_cols < n_rows
    /\ DoPlay(songs[i], "PlaySpecific", <<>>)
    /\ UNCHANGED <<inputs, built>>

\* _play_random(songs, category): the random button of a tab, or a direct call
PlayRandomIn(category) ==
    /\ phase = "running"
    /\ DoPlayRandom(category)
    /\ UNCHANGED <<inputs, built>>

ClickStop ==
    /\ phase = "running"
    /\ DoStop
    /\ UNCHANGED <<inputs, built>>

\* a key event dispatched through root.bind
KeyPress(token) ==
    /\ phase = "running"
    /\ token \in DOMAIN bindings
    /\ LET action == bindings[token]
       IN  CASE action.type = "PlaySpecific" -> DoPlay(action.song, "PlaySpecific", <<>>)
             [] action.type = "PlayRandom" -> DoPlayRandom(action.category)
             [] action.type = "Stop" -> DoStop
    /\ UNCHANGED <<inputs, built>>

Next ==
    \/ Startup
    \/ \E i \in 1..Len(songs) : ClickSong(i)
    \/ \E category \in DictKeys(categories) \cup OtherCategories : PlayRandomIn(category)
    \/ ClickStop
    \/ \E token \in DOMAIN bindings : KeyPress(token)

Spec == Init /\ [][Next]_vars

(* ============================== properties ============================= *)
Range(seq) == {seq[i] : i \in 1..Len(seq)}

Idle == mixer.loaded = NoPath /\ ~mixer.playing

ArgsValid == IsFile(config_file) /\ config_file \in IniNames /\ IsDir(music_dir)

ParsedKey(section) == Strip(Get(section, "key", <<>>))

HasMissingAsset == \E i \in 1..Len(config) : ~IsFile(Join(music_dir, config[i].filename))

HasReservedKey == \E i \in 1..Len(config) : ParsedKey(config[i]) \in ReservedKeys

HasDuplicateKey ==
    \E i, j \in 1..Len(config) :
        i # j /\ ParsedKey(config[i]) # <<>> /\ ParsedKey(config[i]) = ParsedKey(config[j])

BOSS == <<"b", "o", "s", "s">>

TrackA == [filepath |-> "music/a.wav", title |-> <<"T", "h", "e", "m", "e">>,
           artist |-> UnknownArtist, timecode |-> 0, key |-> <<"q">>,
           category |-> <<>>]
TrackB == [filepath |-> "music/b.wav", title |-> <<"B", "o", "s", "s">>,
           artist |-> UnknownArtist, timecode |-> 0, key |-> <<"w">>,
           category |-> BOSS]

\* C1: one PlaySpecific makes at most two load attempts and one
\* initialization; when the audio service fails on every load it makes
\* exactly two load attempts and exactly one initialization, then gives up.
C1_BoundedRetry ==
    last.op = "PlaySpecific" =>
        /\ last.loads <= 2
        /\ last.inits <= 1
        /\ (~device_ok => last.loads = 2 /\ last.inits = 1)

\* C2: a config in which two sections declare the same non-empty hotkey
\* never completes startup: it fails with DuplicateHotkey.
C2_DuplicateHotkeyRejected ==
    (phase # "start" /\ ArgsValid /\ HasDuplicateKey /\ ~HasMissingAsset /\ ~HasReservedKey)
        => (phase = "failed" /\ error = "DuplicateHotkey")

\* C3 (as stated): PlayRandom on a category that is not in the category
\* index, or whose bucket is empty, yields NoTracksAvailable, attempts no
\* load and leaves the playback state as it was.  Stated for a machine whose
\* audio device opens, so that a failure is not one of the retry in _play.
C3_EmptyOrUnknownCategory ==
    (last.op = "PlayRandom" /\ device_ok
        /\ (\/ last.category \notin DictKeys(categories)
            \/ DictGet(categories, last.category) = <<>>))
        => /\ last.result = "NoTracksAvailable"
           /\ last.loads = 0
           /\ Playback(mixer) = last.before

\* C3 (amended): PlayRandom on a non-empty category name that is not in the
\* category index, or on a category whose bucket is empty, yields
\* NoTracksAvailable, attempts no load and leaves the playback state as it
\* was, Idle or Playing.
C3_EmptyOrUnknownLabel ==
    (last.op = "PlayRandom"
        /\ (\/ (last.category \notin DictKeys(categories) /\ last.category # <<>>)
            \/ (last.category \in DictKeys(categories)
                    /\ DictGet(categories, last.category) = <<>>)))
        => /\ last.result = "NoTracksAvailable"
           /\ last.loads = 0
           /\ Playback(mixer) = last.before

C3_Witness ==
    /\ last.op = "PlayRandom"
    /\ last.category = <<"z">>
    /\ last.category \notin DictKeys(categories)
    /\ last.before.playing
    /\ last.result = "NoTracksAvailable"

\* C4: Stop never reports an error and always ends Idle with no asset
\* loaded, whatever the playback state before it and whether or not the
\* mixer was ever initialized.
C4_StopTotal ==
    last.op = "Stop" => (last.result = "ok" /\ Idle)

C4_Witness ==
    /\ last.op = "Stop"
    /\ ~mixer.initialized
    /\ last.before.loaded = NoPath
    /\ Idle

\* C5 (as stated): the two-section example yields roster [A, B], categories
\* {all: [A, B], boss: [B]} and the hotkey map q -> A, w -> B, stop token ->
\* Stop, "1" -> PlayRandom(all), "2" -> PlayRandom(boss).
C5_ExampleAllFirst ==
    (config = ExampleConfig /\ phase = "running") =>
        /\ songs = <<TrackA, TrackB>>
        /\ DictKeys(categories) = {ALL, BOSS}
        /\ DictGet(categories, ALL) = <<TrackA, TrackB>>
        /\ DictGet(categories, BOSS) = <<TrackB>>
        /\ bindings = (<<"q">> :> PlaySpecific(TrackA)) @@ (<<"w">> :> PlaySpecific(TrackB))
                      @@ (SPACE :> StopAction)
                      @@ (<<"1">> :> PlayRandom(ALL)) @@ (<<"2">> :> PlayRandom(BOSS))

\* C5 (amended): the two-section example yields roster [A, B], categories
\* {all: [A, B], boss: [B]} and the hotkey map q -> A, w -> B, stop token ->
\* Stop, "1" -> PlayRandom(boss), "2" -> PlayRandom(all): named categories
\* take the digits from "1" in order of first appearance and "all" the next.
C5_ExampleAllLast ==
    (config = ExampleConfig /\ phase = "running") =>
        /\ songs = <<TrackA, TrackB>>
        /\ DictKeys(categories) = {ALL, BOSS}
        /\ DictGet(categories, ALL) = <<TrackA, TrackB>>
        /\ DictGet(categories, BOSS) = <<TrackB>>
        /\ bindings = (<<"q">> :> PlaySpecific(TrackA)) @@ (<<"w">> :> PlaySpecific(TrackB))
                      @@ (SPACE :> StopAction)
                      @@ (<<"1">> :> PlayRandom(BOSS)) @@ (<<"2">> :> PlayRandom(ALL))

C5_Witness ==
    /\ config = ExampleConfig
    /\ phase = "running"
    /\ Len(songs) = 2
    /\ <<"2">> \in DOMAIN bindings

\* C6: the "all" bucket is the roster itself (every track once, in roster
\* order) and every other bucket is the sub-sequence of the roster whose
\* category equals the bucket name.
C6_CategoryIndex ==
    phase = "running" =>
        /\ ALL \in DictKeys(categories)
        /\ DictGet(categories, ALL) = songs
        /\ \A c \in DictKeys(categories) \ {ALL} :
               DictGet(categories, c) = SelectSeq(songs, LAMBDA song : song.category = c)

\* C7: every token bound to PlayRandom is one of "1".."9", and no token
\* declared by a track ends up bound to PlayRandom.
C7_SelectorCap ==
    phase = "running" =>
        /\ \A t \in DOMAIN bindings :
               bindings[t].type = "PlayRandom" => t \in {<<Digit(d)>> : d \in 1..9}
        /\ \A i \in 1..Len(songs) :
               songs[i].key # <<>> => bindings[songs[i].key].type = "PlaySpecific"

\* C8: when startup arguments are valid and some section names a missing
\* asset or declares a reserved hotkey, startup fails with AssetNotFound or
\* ReservedHotkey (the one that applies when only one kind is present), and
\* no roster, category, binding or playback results from the sections read
\* before the offending one.
C8_LoadAtomic ==
    (phase # "start" /\ ArgsValid /\ (HasMissingAsset \/ HasReservedKey)) =>
        /\ phase = "failed"
        /\ error \in {"AssetNotFound", "ReservedHotkey"}
        /\ (~HasReservedKey => error = "AssetNotFound")
        /\ (~HasMissingAsset => error = "ReservedHotkey")
        /\ songs = <<>>
        /\ categories = <<>>
        /\ bindings = <<>>
        /\ mixer = NewMixer

C8_Witness ==
    /\ config = <<SecA, SecDigit>>
    /\ ArgsValid
    /\ phase = "failed"
    /\ error = "ReservedHotkey"
    /\ songs = <<>>

\* C9: whenever an asset is loaded it is the one of the most recent
\* successful play action, playing from that track's timecode; a play that
\* succeeds, from Idle or from Playing, leaves exactly its own track loaded.
C9_SingleSlot ==
    /\ mixer.loaded # NoPath =>
           /\ lastPlayed # <<>>
           /\ mixer.loaded = lastPlayed[1].filepath
           /\ mixer.pos = lastPlayed[1].timecode
           /\ mixer.playing
    /\ (last.op \in {"PlaySpecific", "PlayRandom"} /\ last.result = "ok") =>
           /\ lastPlayed = last.song
           /\ mixer.loaded = last.song[1].filepath
           /\ mixer.pos = last.song[1].timecode
           /\ mixer.playing

C9_Witness ==
    /\ last.op = "PlaySpecific"
    /\ last.result = "ok"
    /\ last.before.playing
    /\ last.before.loaded # mixer.loaded
    /\ mixer.pos = 7

\* C10: for every category of the index with a non-empty bucket, the tracks
\* PlayRandom can select are exactly the tracks of that bucket, in every
\* state whatever was played before; and a PlayRandom that succeeded played
\* a track of its category's bucket.
C10_RandomInBucket ==
    phase = "running" =>
        /\ \A c \in DictKeys(categories) :
               DictGet(categories, c) # <<>> =>
                   LET pool == Filtered(songs, c)
                   IN  {pool[i + 1] : i \in RandInt(0, Len(pool) - 1)}
                           = Range(DictGet(categories, c))
        /\ (last.op = "PlayRandom" /\ last.result = "ok"
                /\ last.category \in DictKeys(categories)) =>
               last.song[1] \in Range(DictGet(categories, last.category))

C10_Witness ==
    /\ last.op = "PlayRandom"
    /\ last.result = "ok"
    /\ last.category = BOSS
    /\ Len(DictGet(categories, BOSS)) = 2
    /\ last.song[1] = DictGet(categories, BOSS)[2]
    /\ lastPlayed = last.song
    /\ last.before.loaded = DictGet(categories, BOSS)[2].filepath

====
